---- MODULE Spec2Model ----
(***************************************************************************)
(* Kernel-density heatmap pipeline of heatmap/heatmap_generator.py:        *)
(* create_meshgrid -> calculate_intensity -> normalize_alpha, and the      *)
(* quartic kernel kde_quartic they rest on; its loader get_coordinates     *)
(* and renderer save_heatmap; the collaborators update_coordinates         *)
(* (motion), overlay_images and create_gif (animation); and the commands   *)
(* of cli.py that drive them.                                              *)
(*                                                                         *)
(* Five specifications: Spec (the pipeline's functions called on their     *)
(* own and in sequence), SpecFrames (frame after frame), SpecTools (the    *)
(* loader and the collaborators called on their own, on files, and the     *)
(* naming of the frame files), SpecCli (main and its commands, a call at   *)
(* a time) and SpecRuns (cmd_animate run after run in one directory).      *)
(*                                                                         *)
(* Numbers.  Lengths (coordinates, grid_size, bandwidth) are integers      *)
(* counting half units, so that grid_size / 2 of a whole grid_size is      *)
(* exact.  Kernel values, intensities and alphas are exact rationals       *)
(* [num, den] in lowest terms with den > 0.  A distance is carried by its  *)
(* square (the square root of an integer need not be rational); the code   *)
(* only ever compares a distance with the bandwidth and squares the        *)
(* quotient distance / bandwidth, and both are decided by the square.      *)
(***************************************************************************)
EXTENDS Integers, Sequences, FiniteSets, Bags, TLC

VARIABLES
    pc,          \* the call that has just returned ("idle" before any call)
    raised,      \* the exception that call raised, "none" if it returned
    distance,    \* kde_quartic's arguments and result, when called directly
    kernel_value,
    x, y,        \* the point set: two parallel coordinate sequences
    grid_size,
    bandwidth,
    xc, yc,      \* cell centres
    x_mesh, y_mesh,   \* cell origins
    intensity,
    alpha,
    frame,       \* number of frames attempted so far
    log,         \* the bag of frames rendered: inputs, intensity and alpha
    fs,          \* the file system: the content of every path that exists
    args,        \* the arguments of the call or of the command under way
    axes,        \* the limits save_heatmap set on the axes it drew on
    trace,       \* the steps the command has executed, in order
    errors,      \* the number of records logged at level ERROR
    status       \* the status main returned, NotReturned before it returns

\* the state of the heatmap pipeline
pipeline == <<pc, raised, distance, kernel_value, x, y, grid_size, bandwidth,
              xc, yc, x_mesh, y_mesh, intensity, alpha, frame, log>>
\* the state of what surrounds it: files, command line, log and exit status
io == <<fs, args, axes, trace, errors, status>>

vars == <<pipeline, io>>

----------------------------------------------------------------------------
(* Bounds of the model.                                                    *)

\* point coordinates are the whole numbers 0 .. MaxCoord
MaxCoord == 1
\* a point set holds at most MaxPoints points
MaxPoints == 2
\* grid_size ranges over the whole numbers -1 .. MaxGridSize
MaxGridSize == 2
\* bandwidth ranges over the whole numbers -1 .. MaxBandwidth
MaxBandwidth == 2
\* distances and bandwidths handed to kde_quartic directly: 0 .. MaxDistance
\* and -1 .. MaxDistance
MaxDistance == 6
\* cells of an intensity field handed to normalize_alpha directly hold
\* the whole numbers 0 .. MaxIntensity
MaxIntensity == 3
\* a run renders at most MaxFrames frames, whose points are the base points
\* moved by 0 .. MaxShift
MaxFrames == 3
MaxShift == 1

\* half units per whole unit: the divisor of grid_size / 2
Half == 2

----------------------------------------------------------------------------
(* Exact arithmetic.                                                       *)

Abs(n) == IF n < 0 THEN -n ELSE n

RECURSIVE GCD(_, _)
GCD(a, b) == IF b = 0 THEN a ELSE GCD(b, a % b)

\* the rational n / d (d # 0) in lowest terms
Frac(n, d) ==
    LET s == IF d < 0 THEN -1 ELSE 1
        g == GCD(Abs(n), Abs(d))
    IN  [num |-> (s * n) \div g, den |-> Abs(d) \div g]

Zero == Frac(0, 1)
One == Frac(1, 1)

FracAdd(a, b) == Frac(a.num * b.den + b.num * a.den, a.den * b.den)
FracSub(a, b) == Frac(a.num * b.den - b.num * a.den, a.den * b.den)
FracMul(a, b) == Frac(a.num * b.num, a.den * b.den)
\* a / b for b # 0
FracDiv(a, b) == Frac(a.num * b.den, a.den * b.num)
FracLeq(a, b) == a.num * b.den <= b.num * a.den
FracLt(a, b) == a.num * b.den < b.num * a.den

\* the value a call returns, or the exception it raises
Return(v) == [raised |-> "none", value |-> v]
Raise(e) == [raised |-> e, value |-> <<>>]


----------------------------------------------------------------------------
(* kde_quartic                                                             *)

\* kde_quartic with the outer square forgotten: 1 - u ** 2
kde_quartic_unsquared(distance2, h) ==
    IF h = 0
    THEN Raise("ZeroDivisionError")
    ELSE Return(FracSub(One, Frac(distance2, h * h)))

\* kde_quartic(distance, bandwidth) with distance2 = distance ** 2.
\* normalized_distance ** 2 = distance2 / bandwidth ** 2; the division by a
\* zero bandwidth raises.
kde_quartic(distance2, h) ==
    IF h = 0
    THEN Raise("ZeroDivisionError")
    ELSE LET normalized_distance2 == Frac(distance2, h * h)
             w == FracSub(One, normalized_distance2)
         IN  Return(FracMul(w, w))

----------------------------------------------------------------------------
(* numpy arrays: a shape and, for a 2-D array, the rows.                   *)

\* the 1-D array of shape (0,)
EmptyArray == [shape |-> <<0>>, data |-> <<>>]

\* np.array(list of rows): an empty list gives the 1-D array of shape (0,)
NpArray(rows) ==
    IF rows = <<>>
    THEN EmptyArray
    ELSE [shape |-> <<Len(rows), Len(rows[1])>>, data |-> rows]

\* len(a) and len(a[0])
NRows(a) == a.shape[1]
NCols(a) == a.shape[2]

\* a.size
Size(a) == IF Len(a.shape) = 1 THEN a.shape[1] ELSE a.shape[1] * a.shape[2]

Cells(a) ==
    IF Len(a.shape) = 1 THEN {}
    ELSE {<<j, k>> : j \in 1..a.shape[1], k \in 1..a.shape[2]}

At(a, c) == a.data[c[1]][c[2]]

\* min(seq), max(seq) of a non-empty sequence of integers
SeqMin(s) == CHOOSE m \in {s[i] : i \in 1..Len(s)} : \A i \in 1..Len(s) : m <= s[i]
SeqMax(s) == CHOOSE m \in {s[i] : i \in 1..Len(s)} : \A i \in 1..Len(s) : m >= s[i]

\* ceil(a / b) for b # 0
CeilDiv(a, b) == IF b > 0 THEN -((-a) \div b) ELSE -(a \div (-b))

\* an arange that includes the stop value when the step divides the extent
ArangeInclusive(start, stop, step) ==
    IF step = 0
    THEN Raise("ZeroDivisionError")
    ELSE LET q == IF step > 0 THEN (stop - start) \div step
                  ELSE (start - stop) \div (-step)
             n == IF q + 1 > 0 THEN q + 1 ELSE 0
         IN  Return([i \in 1..n |-> start + (i - 1) * step])

\* np.arange(start, stop, step): ceil((stop - start) / step) values, none if
\* that is not positive; a zero step raises
Arange(start, stop, step) ==
    IF step = 0
    THEN Raise("ZeroDivisionError")
    ELSE LET c == CeilDiv(stop - start, step)
             n == IF c > 0 THEN c ELSE 0
         IN  Return([i \in 1..n |-> start + (i - 1) * step])

\* np.meshgrid(xg, yg): Len(yg) rows and Len(xg) columns; x varies along
\* the columns and y along the rows
Meshgrid(xg, yg) ==
    [x_mesh |-> [shape |-> <<Len(yg), Len(xg)>>,
                 data  |-> [j \in 1..Len(yg) |-> [k \in 1..Len(xg) |-> xg[k]]]],
     y_mesh |-> [shape |-> <<Len(yg), Len(xg)>>,
                 data  |-> [j \in 1..Len(yg) |-> [k \in 1..Len(xg) |-> yg[j]]]]]

\* array + scalar
AddScalar(a, v) ==
    [shape |-> a.shape,
     data  |-> [j \in DOMAIN a.data |-> [k \in DOMAIN a.data[j] |-> a.data[j][k] + v]]]

----------------------------------------------------------------------------
(* create_meshgrid                                                         *)

create_meshgrid(px, py, gs, bw) ==
    IF px = <<>> \/ py = <<>>
    THEN Raise("ValueError")        \* min() of an empty sequence
    ELSE
    LET x_min == SeqMin(px)
        x_max == SeqMax(px)
        y_min == SeqMin(py)
        y_max == SeqMax(py)
        x_grid == Arange(x_min - bw, x_max + bw, gs)
        y_grid == Arange(y_min - bw, y_max + bw, gs)
    IN  IF x_grid.raised # "none" THEN Raise(x_grid.raised)
        ELSE IF y_grid.raised # "none" THEN Raise(y_grid.raised)
        ELSE
        LET mesh == Meshgrid(x_grid.value, y_grid.value)
        IN  Return([xc |-> AddScalar(mesh.x_mesh, gs \div Half),
                    yc |-> AddScalar(mesh.y_mesh, gs \div Half),
                    x_mesh |-> mesh.x_mesh,
                    y_mesh |-> mesh.y_mesh])

----------------------------------------------------------------------------
(* calculate_intensity                                                     *)

\* a distance that takes the point's x for its y
distance2_xx(cx, cy, qx, qy) == (cx - qx) * (cx - qx) + (cy - qx) * (cy - qx)

\* the squared Euclidean distance from the centre (cx, cy) to the point
distance2(cx, cy, qx, qy) == (cx - qx) * (cx - qx) + (cy - qy) * (cy - qy)

\* distance <= bandwidth, for distance = sqrt(d2) >= 0
WithinBandwidth(d2, h) == h >= 0 /\ d2 <= h * h

\* one point's contribution to one cell
kde_value(d2, h) ==
    IF WithinBandwidth(d2, h) THEN kde_quartic(d2, h) ELSE Return(Zero)

\* kde_values of one cell: one contribution per point, in point order
kde_values(px, py, cx, cy, h) ==
    [i \in 1..Len(px) |-> kde_value(distance2(cx, cy, px[i], py[i]), h)]

\* sum(kde_values)
RECURSIVE Sum(_)
Sum(s) == IF s = <<>> THEN Zero ELSE FracAdd(Head(s).value, Sum(Tail(s)))

\* intensity_list before the first row is appended
intensity_list_init == <<>>

calculate_intensity(px, py, pxc, pyc, h) ==
    LET Values(j, k) == kde_values(px, py, pxc.data[j][k], pyc.data[j][k], h)
        rows == NRows(pxc)
        cols == IF rows = 0 THEN 0 ELSE NCols(pxc)
        failed == {c \in (1..rows) \X (1..cols) :
                     \E i \in 1..Len(px) : Values(c[1], c[2])[i].raised # "none"}
        intensity_list ==
            intensity_list_init \o
            [j \in 1..rows |-> [k \in 1..cols |-> Sum(Values(j, k))]]
    IN  IF failed # {}
        THEN Raise("ZeroDivisionError")
        ELSE Return(NpArray(intensity_list))

----------------------------------------------------------------------------
(* normalize_alpha                                                         *)

ArrayMax(a) == CHOOSE m \in {At(a, c) : c \in Cells(a)} :
                   \A c \in Cells(a) : FracLeq(At(a, c), m)
ArrayMin(a) == CHOOSE m \in {At(a, c) : c \in Cells(a)} :
                   \A c \in Cells(a) : FracLeq(m, At(a, c))

\* np.zeros_like(a)
ZerosLike(a) ==
    [shape |-> a.shape,
     data  |-> [j \in DOMAIN a.data |-> [k \in DOMAIN a.data[j] |-> Zero]]]

\* the greatest of a non-empty set of rationals
Greatest(S) == CHOOSE m \in S : \A v \in S : FracLeq(v, m)

\* a normaliser that scales by the greatest intensity of all frames rendered
\* so far, a colour scale kept across the frames of an animation
normalize_alpha_running_max(a) ==
    IF Size(a) = 0
    THEN Raise("ValueError")
    ELSE LET hi == Greatest({At(a, c) : c \in Cells(a)} \cup
                            {ArrayMax(r.intensity) : r \in BagToSet(log)})
             lo == ArrayMin(a)
         IN  IF hi = lo
             THEN Return(ZerosLike(a))
             ELSE Return([shape |-> a.shape,
                          data  |-> [j \in DOMAIN a.data |->
                                      [k \in DOMAIN a.data[j] |->
                                        FracDiv(FracSub(a.data[j][k], lo),
                                                FracSub(hi, lo))]]])

\* a normaliser that returns a constant field as it is
normalize_alpha_keep(a) ==
    IF Size(a) = 0
    THEN Raise("ValueError")
    ELSE LET hi == ArrayMax(a)
             lo == ArrayMin(a)
         IN  IF hi = lo
             THEN Return(a)
             ELSE Return([shape |-> a.shape,
                          data  |-> [j \in DOMAIN a.data |->
                                      [k \in DOMAIN a.data[j] |->
                                        FracDiv(FracSub(a.data[j][k], lo),
                                                FracSub(hi, lo))]]])

\* a normaliser that divides by the maximum instead of the range
normalize_alpha_by_max(a) ==
    IF Size(a) = 0
    THEN Raise("ValueError")
    ELSE LET hi == ArrayMax(a)
             lo == ArrayMin(a)
         IN  IF hi = lo
             THEN Return(ZerosLike(a))
             ELSE Return([shape |-> a.shape,
                          data  |-> [j \in DOMAIN a.data |->
                                      [k \in DOMAIN a.data[j] |->
                                        FracDiv(FracSub(a.data[j][k], lo),
                                                hi)]]])

normalize_alpha(a) ==
    IF Size(a) = 0
    THEN Raise("ValueError")        \* max() of a zero-size array
    ELSE LET hi == ArrayMax(a)
             lo == ArrayMin(a)
         IN  IF hi = lo
             THEN Return(ZerosLike(a))
             ELSE Return([shape |-> a.shape,
                          data  |-> [j \in DOMAIN a.data |->
                                      [k \in DOMAIN a.data[j] |->
                                        FracDiv(FracSub(a.data[j][k], lo),
                                                FracSub(hi, lo))]]])

----------------------------------------------------------------------------
(* Inputs.                                                                 *)

Coords == {Half * c : c \in 0..MaxCoord}

\* point sets: x and y of the same length
PointSets ==
    UNION {[x : [1..n -> Coords], y : [1..n -> Coords]] : n \in 0..MaxPoints}

GridSizes == {Half * g : g \in -1..MaxGridSize}
Bandwidths == {Half * b : b \in -1..MaxBandwidth}

\* grids of centres handed to calculate_intensity directly: any centres on
\* the half-unit lattice, in these shapes
SampleShapes == {<<0, 1>>, <<1, 0>>, <<1, 1>>, <<1, 2>>}
SampleCoords == 0..(Half * MaxCoord)
SampleGrids ==
    UNION {[shape : {sh},
            data  : [1..sh[1] -> [1..sh[2] -> SampleCoords]]] : sh \in SampleShapes}
SamplePoints == {p \in PointSets : Len(p.x) <= 1}
SampleBandwidths == -1..(Half * MaxBandwidth)

\* intensity fields handed to normalize_alpha directly
FieldShapes == {<<1, 1>>, <<1, 2>>, <<2, 1>>, <<2, 2>>}
FieldValues == {Frac(n, 1) : n \in 0..MaxIntensity}
SampleFields ==
    {EmptyArray} \cup
    UNION {[shape : {sh},
            data  : [1..sh[1] -> [1..sh[2] -> FieldValues]]] : sh \in FieldShapes}

----------------------------------------------------------------------------
(* Files.  A path is the sequence of the code points of its characters,    *)
(* so that paths compare as Python compares strings.  The file system is   *)
(* a function from the paths that exist to what they hold: a JSON          *)
(* document (kind "json", the parsed value in data), an image (kind        *)
(* "image": mode, width, height and a tag standing for its pixels), an     *)
(* animation (kind "gif": the frames in order), or bytes that are neither  *)
(* JSON nor an image (kind "text").                                        *)

\* the file system with no file in it
NoFiles == [p \in {} |-> [kind |-> "text"]]

\* files with path p holding content c, created or overwritten
WriteFile(files, p, c) ==
    [q \in (DOMAIN files) \cup {p} |-> IF q = p THEN c ELSE files[q]]

JsonFile(data) == [kind |-> "json", data |-> data]
TextFile == [kind |-> "text"]
ImageFile(mode, width, height, tag) ==
    [kind |-> "image", mode |-> mode, width |-> width, height |-> height,
     tag |-> tag]
GifFile(frames) == [kind |-> "gif", frames |-> frames]

\* a JSON object with the members named in keys: a record of a coordinate
\* file is an object with members x and y
Point(keys, vx, vy) == [k \in keys |-> IF k = "x" THEN vx ELSE vy]

----------------------------------------------------------------------------
(* get_coordinates                                                         *)

\* the loop with both appends swapped for prepends
RECURSIVE load_points_prepend(_, _, _)
load_points_prepend(data, lx, ly) ==
    IF data = <<>>
    THEN Return([x |-> lx, y |-> ly])
    ELSE LET point == Head(data)
         IN  IF "x" \notin DOMAIN point \/ "y" \notin DOMAIN point
             THEN Raise("KeyError")
             ELSE load_points_prepend(Tail(data), <<point["x"]>> \o lx,
                                      <<point["y"]>> \o ly)

\* the loop skipping the records that lack a member
RECURSIVE load_points_skip(_, _, _)
load_points_skip(data, lx, ly) ==
    IF data = <<>>
    THEN Return([x |-> lx, y |-> ly])
    ELSE LET point == Head(data)
         IN  IF "x" \notin DOMAIN point \/ "y" \notin DOMAIN point
             THEN load_points_skip(Tail(data), lx, ly)
             ELSE load_points_skip(Tail(data), Append(lx, point["x"]),
                                   Append(ly, point["y"]))

\* for point in data: x.append(point['x']); y.append(point['y']), then
\* return x, y.  data is what is left to iterate, lx and ly the lists so
\* far; point['x'] is evaluated before point['y'] and either raises
\* KeyError when the member is missing.
RECURSIVE load_points(_, _, _)
load_points(data, lx, ly) ==
    IF data = <<>>
    THEN Return([x |-> lx, y |-> ly])
    ELSE LET point == Head(data)
         IN  IF "x" \notin DOMAIN point
             THEN Raise("KeyError")
             ELSE IF "y" \notin DOMAIN point
                  THEN Raise("KeyError")
                  ELSE load_points(Tail(data), Append(lx, point["x"]),
                                   Append(ly, point["y"]))

\* get_coordinates taking a missing file for an empty one
get_coordinates_missing_is_empty(files, json_file) ==
    IF json_file \notin DOMAIN files
    THEN Return([x |-> <<>>, y |-> <<>>])
    ELSE IF files[json_file].kind # "json"
         THEN Raise("JSONDecodeError")
         ELSE load_points(files[json_file].data, <<>>, <<>>)

\* get_coordinates(json_file) on the file system files: open() raises
\* FileNotFoundError, json.load raises JSONDecodeError on what is not JSON;
\* the three except clauses log and re-raise.
get_coordinates(files, json_file) ==
    IF json_file \notin DOMAIN files
    THEN Raise("FileNotFoundError")
    ELSE IF files[json_file].kind # "json"
         THEN Raise("JSONDecodeError")
         ELSE load_points(files[json_file].data, <<>>, <<>>)

----------------------------------------------------------------------------
(* update_coordinates.  Its arguments are arrays of at most one dimension: *)
(* a list is the 1-D array of its elements, a scalar the 0-d array of      *)
(* shape ().                                                               *)

\* np.asarray of a list and of a scalar
ListArray(l) == [shape |-> <<Len(l)>>, data |-> l]
ScalarArray(v) == [shape |-> <<>>, data |-> <<v>>]

\* the element of a at index i of a result it was broadcast to: the one
\* element of a 0-d or one-element array, the i-th of any other
BroadcastAt(a, i) == IF Len(a.data) = 1 THEN a.data[1] ELSE a.data[i]

\* a + b with every element of a given the first element of b
np_add_first(a, b) ==
    IF a.shape = <<>> /\ b.shape = <<>>
    THEN Return([shape |-> <<>>, data |-> <<a.data[1] + b.data[1]>>])
    ELSE LET la == IF a.shape = <<>> THEN 1 ELSE a.shape[1]
             lb == IF b.shape = <<>> THEN 1 ELSE b.shape[1]
             n == IF la = 1 THEN lb ELSE la
         IN  IF la # lb /\ la # 1 /\ lb # 1
             THEN Raise("ValueError")
             ELSE Return([shape |-> <<n>>,
                          data |-> [i \in 1..n |->
                                      BroadcastAt(a, i) + BroadcastAt(b, 1)]])

\* a + b for arrays of at most one dimension, with numpy's broadcasting: a
\* 0-d array goes with any shape, two 1-D arrays go together when their
\* lengths are equal or one of them is 1, anything else raises ValueError
np_add(a, b) ==
    IF a.shape = <<>> /\ b.shape = <<>>
    THEN Return(ScalarArray(a.data[1] + b.data[1]))
    ELSE LET la == IF a.shape = <<>> THEN 1 ELSE a.shape[1]
             lb == IF b.shape = <<>> THEN 1 ELSE b.shape[1]
             n == IF la = 1 THEN lb ELSE la
         IN  IF la # lb /\ la # 1 /\ lb # 1
             THEN Raise("ValueError")
             ELSE Return([shape |-> <<n>>,
                          data |-> [i \in 1..n |->
                                      BroadcastAt(a, i) + BroadcastAt(b, i)]])

\* update_coordinates(x, y, x_delta, y_delta): px and py are lists, dx and
\* dy the arrays np.asarray makes of the deltas
update_coordinates(px, py, dx, dy) ==
    LET updated_x == np_add(ListArray(px), dx)
        updated_y == np_add(ListArray(py), dy)
    IN  IF updated_x.raised # "none"
        THEN updated_x
        ELSE IF updated_y.raised # "none"
             THEN updated_y
             ELSE Return([x |-> updated_x.value.data,
                          y |-> updated_y.value.data])

----------------------------------------------------------------------------
(* What a call that writes files hands back: the exception it raised, if   *)
(* any, and the file system it leaves behind.                              *)

Outcome(e, files) == [raised |-> e, value |-> files]

\* Image.open succeeds on an image (no animation is given as an input)
IsImage(c) == c.kind = "image"

\* A path with a directory part (a / in it) names a directory that does not
\* exist: every file of the model lies in the working directory, the frame
\* files included, whose directory temp_frames the command makes and whose
\* names are written without it.  Opening such a path for writing raises
\* FileNotFoundError.
InMissingDirectory(path) == \E k \in 1..Len(path) : path[k] = 47

\* Image.save opens fp for writing, which creates or truncates it, before it
\* encodes.  When encoding fails a file that was there stays truncated; a
\* file the call created is removed by the releases of the library that
\* clean up after themselves and kept by the others (keeps).
FailedSave(files, fp, keeps) ==
    IF fp \in DOMAIN files \/ keeps
    THEN WriteFile(files, fp, TextFile)
    ELSE files

----------------------------------------------------------------------------
(* overlay_images                                                          *)

\* crop_box = None
NoCrop == <<>>
\* the default crop box; a box is (left, top, right, bottom)
DefaultCropBox == <<80, 22, 540, 480>>

\* overlay_images(background_path, overlay_path, output_path, crop_box).
\* Image.open raises FileNotFoundError on a path that does not exist and
\* UnidentifiedImageError (an OSError) on a file that is no image; paste
\* raises ValueError on a mask without an alpha band; crop raises ValueError
\* on a box without four coordinates or with right < left or
\* bottom < top; save fails on a path in a missing directory and on an
\* image without pixels.  Only save touches
\* output_path.
overlay_images(files, background_path, overlay_path, output_path, crop_box, keeps) ==
    IF background_path \notin DOMAIN files
    THEN Outcome("FileNotFoundError", files)
    ELSE IF ~IsImage(files[background_path])
    THEN Outcome("UnidentifiedImageError", files)
    ELSE IF overlay_path \notin DOMAIN files
    THEN Outcome("FileNotFoundError", files)
    ELSE IF ~IsImage(files[overlay_path])
    THEN Outcome("UnidentifiedImageError", files)
    ELSE IF files[overlay_path].mode # "RGBA"
    THEN Outcome("ValueError", files)
    ELSE LET box == IF crop_box = NoCrop THEN DefaultCropBox ELSE crop_box
         IN  IF Len(box) # 4
             THEN Outcome("ValueError", files)
             ELSE IF box[3] < box[1] \/ box[4] < box[2]
             THEN Outcome("ValueError", files)
             ELSE IF InMissingDirectory(output_path)
             THEN Outcome("FileNotFoundError", files)
             ELSE IF box[3] = box[1] \/ box[4] = box[2]
             THEN Outcome("SystemError", FailedSave(files, output_path, keeps))
             ELSE Outcome("none",
                          WriteFile(files, output_path,
                                    ImageFile(files[background_path].mode,
                                              box[3] - box[1],
                                              box[4] - box[2],
                                              files[background_path].tag
                                                \o files[overlay_path].tag)))

----------------------------------------------------------------------------
(* create_gif                                                              *)

\* a < b for strings, as Python compares them: at the first index where
\* they differ, or a is a proper prefix of b
LexLess(a, b) ==
    \E k \in 1..(Len(b)) :
        /\ \A j \in 1..(k - 1) : j <= Len(a) /\ a[j] = b[j]
        /\ \/ k = Len(a) + 1
           \/ k <= Len(a) /\ a[k] < b[k]

\* a glob pattern with one wildcard is what stands before and after it
Pattern(prefix, suffix) == [prefix |-> prefix, suffix |-> suffix]

\* fnmatch of a path against prefix*suffix
Matches(pattern, path) ==
    LET n == Len(path)
        np == Len(pattern.prefix)
        ns == Len(pattern.suffix)
    IN  /\ n >= np + ns
        /\ SubSeq(path, 1, np) = pattern.prefix
        /\ SubSeq(path, n - ns + 1, n) = pattern.suffix

\* the paths glob.glob(pattern) finds
Glob(files, pattern) == {path \in DOMAIN files : Matches(pattern, path)}

\* the orders in which glob.glob may list the paths it found
Listings(paths) ==
    {l \in [1..Cardinality(paths) -> paths] :
        \A i, j \in 1..Cardinality(paths) : i # j => l[i] # l[j]}

\* path inserted at its place in the ascending list l
RECURSIVE Insert(_, _)
Insert(l, path) ==
    IF l = <<>>
    THEN <<path>>
    ELSE IF LexLess(path, Head(l))
         THEN <<path>> \o l
         ELSE <<Head(l)>> \o Insert(Tail(l), path)

\* the listing as glob.glob returned it
unsorted(listing) == listing

\* sorted(listing)
RECURSIVE sorted(_)
sorted(listing) ==
    IF listing = <<>>
    THEN <<>>
    ELSE Insert(sorted(Tail(listing)), Head(listing))

\* create_gif(input_pattern, output_path, ...), listing being what
\* glob.glob(input_pattern) returned.  No match raises ValueError.  The first
\* image is opened before save is called; the others are opened by save as
\* it encodes them, after it opened output_path for writing.
create_gif(files, listing, output_path, keeps) ==
    LET image_files == sorted(listing)
    IN  IF image_files = <<>>
        THEN Outcome("ValueError", files)
        ELSE IF ~IsImage(files[image_files[1]])
        THEN Outcome("UnidentifiedImageError", files)
        ELSE IF InMissingDirectory(output_path)
        THEN Outcome("FileNotFoundError", files)
        ELSE IF \E i \in 2..Len(image_files) : ~IsImage(files[image_files[i]])
        THEN Outcome("UnidentifiedImageError",
                     FailedSave(files, output_path, keeps))
        ELSE Outcome("none",
                     WriteFile(files, output_path,
                               GifFile([i \in 1..Len(image_files) |->
                                          files[image_files[i]]])))

----------------------------------------------------------------------------
(* save_heatmap                                                            *)

\* the pixels of the figure plt.subplots() makes
FigWidth == 640
FigHeight == 480

\* the limits of a new Axes
DefaultAxes == [xlim |-> <<0, 1>>, ylim |-> <<0, 1>>]

\* what stands for the pixels drawn from alpha: its values row by row, each
\* as numerator and denominator
RECURSIVE FlattenRows(_)
FlattenRows(rows) ==
    IF rows = <<>>
    THEN <<>>
    ELSE IF Head(rows) = <<>>
         THEN FlattenRows(Tail(rows))
         ELSE <<Head(Head(rows)).num, Head(Head(rows)).den>>
                  \o FlattenRows(<<Tail(Head(rows))>> \o Tail(rows))

\* save_heatmap(output_path, x_mesh, y_mesh, intensity, alpha, ...): imshow
\* raises TypeError on data that is not 2-D; both limits are set from len()
\* of a mesh, the length of its first axis; savefig writes the figure, whose size is
\* that of the figure and not that of the data
save_heatmap(files, output_path, px_mesh, py_mesh, pintensity, palpha) ==
    IF Len(pintensity.shape) # 2
    THEN [raised |-> "TypeError", files |-> files, axes |-> DefaultAxes]
    ELSE IF InMissingDirectory(output_path)
    THEN [raised |-> "FileNotFoundError", files |-> files,
          axes |-> [xlim |-> <<0, px_mesh.shape[1]>>,
                    ylim |-> <<0, py_mesh.shape[1]>>]]
    ELSE [raised |-> "none",
          files |-> WriteFile(files, output_path,
                              ImageFile("RGBA", FigWidth, FigHeight,
                                        FlattenRows(palpha.data))),
          axes |-> [xlim |-> <<0, px_mesh.shape[1]>>,
                    ylim |-> <<0, py_mesh.shape[1]>>]]

----------------------------------------------------------------------------
(* Command line.                                                           *)

\* no command under way
NoArgs == [command |-> "none"]
\* main has not returned
NotReturned == -1

----------------------------------------------------------------------------
(* State machine.                                                          *)

InitPipeline ==
    /\ pc = "idle"
    /\ raised = "none"
    /\ distance = 0
    /\ kernel_value = Zero
    /\ x = <<>>
    /\ y = <<>>
    /\ grid_size = 0
    /\ bandwidth = 0
    /\ xc = EmptyArray
    /\ yc = EmptyArray
    /\ x_mesh = EmptyArray
    /\ y_mesh = EmptyArray
    /\ intensity = EmptyArray
    /\ alpha = EmptyArray
    /\ frame = 0
    /\ log = EmptyBag

\* the files in fs, no command under way
InitIoOn(filesystems) ==
    /\ fs \in filesystems
    /\ args = NoArgs
    /\ axes = DefaultAxes
    /\ trace = <<>>
    /\ errors = 0
    /\ status = NotReturned

\* nothing on disk, no command under way
Init == InitPipeline /\ InitIoOn({NoFiles})

\* kde_quartic(d, h), called on its own
KdeQuartic ==
    /\ pc = "idle"
    /\ \E d \in 0..MaxDistance, h \in -1..MaxDistance :
         LET r == kde_quartic(d * d, h)
         IN  /\ distance' = d
             /\ bandwidth' = h
             /\ raised' = r.raised
             /\ kernel_value' = IF r.raised = "none" THEN r.value ELSE Zero
    /\ pc' = "kde_quartic"
    /\ UNCHANGED <<x, y, grid_size, xc, yc, x_mesh, y_mesh, intensity, alpha,
                   frame, log>>
    /\ UNCHANGED io

\* xc, yc, x_mesh, y_mesh = create_meshgrid(x, y, grid_size, bandwidth)
MeshgridCall(px, py, gs, bw) ==
    LET r == create_meshgrid(px, py, gs, bw)
    IN  /\ x' = px
        /\ y' = py
        /\ grid_size' = gs
        /\ bandwidth' = bw
        /\ raised' = r.raised
        /\ IF r.raised = "none"
           THEN /\ xc' = r.value.xc
                /\ yc' = r.value.yc
                /\ x_mesh' = r.value.x_mesh
                /\ y_mesh' = r.value.y_mesh
           ELSE UNCHANGED <<xc, yc, x_mesh, y_mesh>>
        /\ pc' = "create_meshgrid"
        /\ UNCHANGED <<distance, kernel_value, intensity, alpha, frame, log>>

CreateMeshgrid ==
    /\ pc = "idle"
    /\ \E p \in PointSets, gs \in GridSizes, bw \in Bandwidths :
         MeshgridCall(p.x, p.y, gs, bw)
    /\ UNCHANGED io

\* intensity = calculate_intensity(x, y, xc, yc, bandwidth)
IntensityCall(px, py, pxc, pyc, h) ==
    LET r == calculate_intensity(px, py, pxc, pyc, h)
    IN  /\ x' = px
        /\ y' = py
        /\ xc' = pxc
        /\ yc' = pyc
        /\ bandwidth' = h
        /\ raised' = r.raised
        /\ IF r.raised = "none"
           THEN intensity' = r.value
           ELSE UNCHANGED intensity
        /\ pc' = "calculate_intensity"
        /\ UNCHANGED <<distance, kernel_value, grid_size, x_mesh, y_mesh,
                       alpha, frame, log>>

\* the second stage of a frame: on the grid the first stage built
CalculateIntensity ==
    /\ pc = "create_meshgrid"
    /\ raised = "none"
    /\ IntensityCall(x, y, xc, yc, bandwidth)
    /\ UNCHANGED io

\* calculate_intensity called on its own, on centres of the caller's choice
CalculateIntensitySampled ==
    /\ pc = "idle"
    /\ \E p \in SamplePoints, gx \in SampleGrids, h \in SampleBandwidths :
         \E gy \in {g \in SampleGrids : g.shape = gx.shape} :
           IntensityCall(p.x, p.y, gx, gy, h)
    /\ UNCHANGED io

\* alpha = normalize_alpha(intensity)
AlphaCall(a) ==
    LET r == normalize_alpha(a)
    IN  /\ intensity' = a
        /\ raised' = r.raised
        /\ IF r.raised = "none"
           THEN alpha' = r.value
           ELSE UNCHANGED alpha
        /\ pc' = "normalize_alpha"
        /\ UNCHANGED <<distance, kernel_value, x, y, grid_size, bandwidth,
                       xc, yc, x_mesh, y_mesh, frame, log>>

\* the third stage of a frame: on the intensity the second stage computed
NormalizeAlpha ==
    /\ pc = "calculate_intensity"
    /\ raised = "none"
    /\ AlphaCall(intensity)
    /\ UNCHANGED io

\* normalize_alpha called on its own
NormalizeAlphaSampled ==
    /\ pc = "idle"
    /\ \E a \in SampleFields : AlphaCall(a)
    /\ UNCHANGED io

Next ==
    \/ KdeQuartic
    \/ CreateMeshgrid
    \/ CalculateIntensity
    \/ CalculateIntensitySampled
    \/ NormalizeAlpha
    \/ NormalizeAlphaSampled

Spec == Init /\ [][Next]_vars

----------------------------------------------------------------------------
(* Frames: create_heatmap_from_points called once per frame, as cmd_animate *)
(* does for points that move from frame to frame.                          *)

\* the points of a frame: one point at the origin, one moved from it
FramePoints == {[x |-> <<0, Half * s>>, y |-> <<0, 0>>] : s \in 0..MaxShift}
\* every frame is rendered on cells of one unit
FrameGridSizes == {Half}
FrameBandwidths == {Half * b : b \in 0..MaxBandwidth}

\* the first stage of a frame
FrameCreateMeshgrid ==
    /\ pc = "idle"
    /\ frame < MaxFrames
    /\ \E p \in FramePoints, gs \in FrameGridSizes, bw \in FrameBandwidths :
         MeshgridCall(p.x, p.y, gs, bw)
    /\ UNCHANGED io

\* what a frame was rendered from and what it handed to save_heatmap
Rendered ==
    [x |-> x, y |-> y, grid_size |-> grid_size, bandwidth |-> bandwidth,
     intensity |-> intensity, alpha |-> alpha]

\* save_heatmap(output_path, x_mesh, y_mesh, intensity, alpha, ...): the last
\* stage of a frame
SaveHeatmap ==
    /\ pc = "normalize_alpha"
    /\ raised = "none"
    /\ log' = log (+) SetToBag({Rendered})
    /\ frame' = frame + 1
    /\ pc' = "idle"
    /\ UNCHANGED <<raised, distance, kernel_value, x, y, grid_size, bandwidth,
                   xc, yc, x_mesh, y_mesh, intensity, alpha>>
    /\ UNCHANGED io

\* a stage raised: the exception leaves create_heatmap_from_points and the
\* frame is not rendered
FrameFailed ==
    /\ pc \in {"create_meshgrid", "calculate_intensity", "normalize_alpha"}
    /\ raised # "none"
    /\ raised' = "none"
    /\ frame' = frame + 1
    /\ pc' = "idle"
    /\ UNCHANGED <<distance, kernel_value, x, y, grid_size, bandwidth,
                   xc, yc, x_mesh, y_mesh, intensity, alpha, log>>
    /\ UNCHANGED io

NextFrames ==
    \/ FrameCreateMeshgrid
    \/ CalculateIntensity
    \/ NormalizeAlpha
    \/ SaveHeatmap
    \/ FrameFailed

SpecFrames == Init /\ [][NextFrames]_vars

----------------------------------------------------------------------------
(* The collaborators of the pipeline, each called on its own:              *)
(* get_coordinates, update_coordinates, overlay_images and create_gif.     *)

\* data.json; the records of a coordinate file hold the coordinates of the
\* point sets, and some lack a member
LoaderPath == <<100>>
Documents ==
    UNION {[1..n -> {Point(keys, vx, vy) : keys \in SUBSET {"x", "y"},
                                           vx \in Coords, vy \in Coords}] :
             n \in 0..MaxPoints}
LoaderFiles ==
    {NoFiles, WriteFile(NoFiles, LoaderPath, TextFile)}
        \cup {WriteFile(NoFiles, LoaderPath, JsonFile(d)) : d \in Documents}

\* x, y = get_coordinates(json_file)
LoaderCall(json_file) ==
    LET r == get_coordinates(fs, json_file)
    IN  /\ raised' = r.raised
        /\ IF r.raised = "none"
           THEN x' = r.value.x /\ y' = r.value.y
           ELSE UNCHANGED <<x, y>>
        /\ errors' = IF r.raised = "none" THEN errors ELSE errors + 1
        /\ pc' = "get_coordinates"
        /\ UNCHANGED <<distance, kernel_value, grid_size, bandwidth, xc, yc,
                       x_mesh, y_mesh, intensity, alpha, frame, log>>
        /\ UNCHANGED <<fs, axes>>

GetCoordinates ==
    /\ pc = "idle"
    /\ fs \in LoaderFiles
    /\ LoaderCall(LoaderPath)
    /\ args' = [command |-> "get_coordinates", json_file |-> LoaderPath]
    /\ UNCHANGED <<trace, status>>

\* the coordinates and the deltas update_coordinates is given: lists of
\* no, one and three numbers, and scalars
MotionLists == {<<>>, <<Half>>, <<0, Half, 3>>}
MotionDeltas ==
    {ScalarArray(v) : v \in {0, 1, -Half}}
        \cup {ListArray(l) : l \in {<<>>, <<Half>>, <<1, -1, Half>>, <<0, 0, 0>>}}

\* x, y = update_coordinates(x, y, x_delta, y_delta)
MotionCall(px, py, dx, dy) ==
    LET r == update_coordinates(px, py, dx, dy)
    IN  /\ raised' = r.raised
        /\ IF r.raised = "none"
           THEN x' = r.value.x /\ y' = r.value.y
           ELSE x' = px /\ y' = py
        /\ pc' = "update_coordinates"
        /\ UNCHANGED <<distance, kernel_value, grid_size, bandwidth, xc, yc,
                       x_mesh, y_mesh, intensity, alpha, log>>
        /\ UNCHANGED <<fs, axes, errors>>

UpdateCoordinates ==
    /\ pc = "idle"
    /\ fs = NoFiles
    /\ \E px \in MotionLists, py \in MotionLists,
          dx \in MotionDeltas, dy \in MotionDeltas :
         /\ MotionCall(px, py, dx, dy)
         /\ args' = [command |-> "update_coordinates", x |-> px, y |-> py,
                     x_delta |-> dx, y_delta |-> dy]
    /\ UNCHANGED <<frame, trace, status>>

\* map.png, heat.png and out.png; a background and an overlay that are
\* missing, no image, or an image with or without an alpha band, and an
\* output that may be there already
BackgroundPath == <<98>>
OverlayPath == <<104>>
OutputPath == <<111>>
Outputs == {ImageFile("RGB", 2, 2, <<2>>)}
\* files with or without path, holding any of contents
WithAny(filesystems, path, contents) ==
    filesystems \cup {WriteFile(f, path, c) : f \in filesystems, c \in contents}
OverlayFiles ==
    WithAny(WithAny(WithAny({NoFiles}, BackgroundPath,
                            {TextFile, ImageFile("RGB", 6, 5, <<0>>)}),
                    OverlayPath,
                    {TextFile, ImageFile("RGBA", 6, 5, <<1>>),
                     ImageFile("RGB", 6, 5, <<1>>)}),
            OutputPath, Outputs)
\* no box, a box, a box with right < left, a box with right = left, and
\* a box short of a coordinate
CropBoxes == {NoCrop, <<1, 1, 4, 3>>, <<4, 1, 1, 3>>, <<1, 1, 1, 3>>, <<1, 1, 4>>}

\* overlay_images(background_path, overlay_path, output_path, crop_box)
OverlayCall(background_path, overlay_path, output_path, crop_box, keeps) ==
    LET r == overlay_images(fs, background_path, overlay_path, output_path,
                            crop_box, keeps)
    IN  /\ raised' = r.raised
        /\ fs' = r.value
        /\ errors' = IF r.raised \in {"FileNotFoundError", "UnidentifiedImageError"}
                     THEN errors + 1
                     ELSE errors
        /\ pc' = "overlay_images"
        /\ UNCHANGED <<distance, kernel_value, x, y, grid_size, bandwidth,
                       xc, yc, x_mesh, y_mesh, intensity, alpha, frame, log>>
        /\ UNCHANGED axes

OverlayImages ==
    /\ pc = "idle"
    /\ fs \in OverlayFiles
    /\ \E output_path \in {OutputPath, OverlayPath}, crop_box \in CropBoxes,
          keeps \in BOOLEAN :
         /\ OverlayCall(BackgroundPath, OverlayPath, output_path, crop_box, keeps)
         /\ args' = [command |-> "overlay_images",
                     background |-> BackgroundPath, heatmap |-> OverlayPath,
                     output |-> output_path, crop_box |-> crop_box]
    /\ UNCHANGED <<trace, status>>

\* f1, f10, f2 and g1, each missing, one of two images, or no image; the
\* patterns f*, g*, f*0 and x*
GifPaths == {<<102, 49>>, <<102, 49, 48>>, <<102, 50>>, <<103, 49>>}
GifFiles ==
    {f \in UNION {[paths -> {TextFile, ImageFile("RGBA", 6, 5, <<0>>),
                             ImageFile("RGBA", 6, 5, <<1>>)}] :
                    paths \in SUBSET GifPaths} :
        Cardinality({p \in DOMAIN f : f[p] = TextFile}) <= 1}
GifPatterns == {Pattern(<<102>>, <<>>), Pattern(<<103>>, <<>>),
                Pattern(<<102>>, <<48>>), Pattern(<<120>>, <<>>)}

\* create_gif(input_pattern, output_path, ...)
GifCall(input_pattern, output_path, listing, keeps) ==
    LET r == create_gif(fs, listing, output_path, keeps)
    IN  /\ raised' = r.raised
        /\ fs' = r.value
        /\ errors' = IF r.raised = "none" THEN errors ELSE errors + 1
        /\ pc' = "create_gif"
        /\ UNCHANGED <<distance, kernel_value, x, y, grid_size, bandwidth,
                       xc, yc, x_mesh, y_mesh, intensity, alpha, frame, log>>
        /\ UNCHANGED axes

CreateGif ==
    /\ pc = "idle"
    /\ fs \in GifFiles
    /\ fs # NoFiles
    /\ \E input_pattern \in GifPatterns, keeps \in BOOLEAN :
         \E listing \in Listings(Glob(fs, input_pattern)) :
           /\ GifCall(input_pattern, OutputPath, listing, keeps)
           /\ args' = [command |-> "create_gif", input |-> input_pattern,
                       output |-> OutputPath]
    /\ UNCHANGED <<trace, status>>

\* str(n) for n >= 0: the code points of its decimal digits
RECURSIVE Digits(_)
Digits(n) ==
    IF n < 10 THEN <<48 + n>> ELSE Digits(n \div 10) \o <<48 + (n % 10)>>
\* d padded with zeros on the left to width characters
RECURSIVE ZeroPad(_, _)
ZeroPad(d, width) ==
    IF Len(d) >= width THEN d ELSE ZeroPad(<<48>> \o d, width)
\* f"{i:04d}"
Format04d(i) == ZeroPad(Digits(i), 4)

\* temp_frames/frame_ and .png, written t and .
FramePrefix == <<116>>
FrameSuffix == <<46>>
\* temp_dir / f"frame_{i:04d}.png"
FramePath(i) == FramePrefix \o Format04d(i) \o FrameSuffix

\* One iteration of cmd_animate's loop, the ones before it left out: the
\* figure of frame i, which stands for what was rendered, is written to
\* temp_dir / f"frame_{i:04d}.png".  i grows from one iteration to the next;
\* two iterations are followed.
WriteFrame ==
    /\ pc \in {"idle", "frame_path"}
    /\ \A path \in DOMAIN fs : Matches(Pattern(FramePrefix, FrameSuffix), path)
    /\ Cardinality(DOMAIN fs) < 2
    /\ \E i \in {0, 1, 9, 10, 99, 100, 999, 1000, 9999, 10000} :
         /\ pc = "frame_path" => i > frame
         /\ frame' = i
         /\ fs' = WriteFile(fs, FramePath(i),
                            ImageFile("RGBA", FigWidth, FigHeight, <<i>>))
    /\ args' = [command |-> "frame_path",
                input |-> Pattern(FramePrefix, FrameSuffix),
                output |-> OutputPath]
    /\ pc' = "frame_path"
    /\ UNCHANGED <<raised, distance, kernel_value, x, y, grid_size, bandwidth,
                   xc, yc, x_mesh, y_mesh, intensity, alpha, log>>
    /\ UNCHANGED <<axes, trace, errors, status>>

\* create_gif(str(temp_dir / "frame_*.png"), args.output, ...) after the
\* last iteration
FramesToGif ==
    /\ pc = "frame_path"
    /\ \E keeps \in BOOLEAN :
         \E listing \in Listings(Glob(fs, args.input)) :
           GifCall(args.input, args.output, listing, keeps)
    /\ UNCHANGED <<args, trace, status>>

InitTools ==
    InitPipeline /\ InitIoOn(LoaderFiles \cup OverlayFiles \cup GifFiles)

NextTools ==
    \/ GetCoordinates
    \/ UpdateCoordinates
    \/ OverlayImages
    \/ CreateGif
    \/ WriteFrame
    \/ FramesToGif

SpecTools == InitTools /\ [][NextTools]_vars

----------------------------------------------------------------------------
(* The command line: main and the four commands, a step at a time.         *)

\* the calls create_heatmap makes, and create_heatmap_from_points, in the
\* order of their statements
create_heatmap_stages ==
    <<"get_coordinates", "create_meshgrid", "calculate_intensity",
      "normalize_alpha", "save_heatmap">>
\* create_heatmap_from_points writing the figure before it normalises
create_heatmap_from_points_saving_early ==
    <<"create_meshgrid", "calculate_intensity", "save_heatmap",
      "normalize_alpha">>
create_heatmap_from_points_stages ==
    <<"create_meshgrid", "calculate_intensity", "normalize_alpha",
      "save_heatmap">>

\* the handlers' return 0 and, in except Exception, return 1
handler_status_always_zero(r) == 0
handler_status(r) == IF r = "none" THEN 0 ELSE 1

\* the loop for i in range(frames) leaving after its first round
range_exhausted_after_one(i, frames) == i >= 1
\* for i in range(frames): there is no i left
range_exhausted(i, frames) == i >= frames

\* s.split(','): the fields of s, field being the one under way
RECURSIVE SplitFrom(_, _)
SplitFrom(s, field) ==
    IF s = <<>>
    THEN <<field>>
    ELSE IF Head(s) = 44
         THEN <<field>> \o SplitFrom(Tail(s), <<>>)
         ELSE SplitFrom(Tail(s), Append(field, Head(s)))

\* the number the decimal digits d stand for, after the digits worth n
RECURSIVE DigitsValue(_, _)
DigitsValue(d, n) ==
    IF d = <<>> THEN n ELSE DigitsValue(Tail(d), 10 * n + (Head(d) - 48))

\* int(field): an optional sign and one or more decimal digits; anything
\* else raises ValueError
ParseInt(field) ==
    LET signed == field # <<>> /\ Head(field) \in {43, 45}
        d == IF signed THEN Tail(field) ELSE field
    IN  IF d = <<>> \/ \E i \in 1..Len(d) : d[i] \notin 48..57
        THEN Raise("ValueError")
        ELSE IF signed /\ Head(field) = 45
             THEN Return(-DigitsValue(d, 0))
             ELSE Return(DigitsValue(d, 0))

\* crop_box of cmd_overlay: None without --crop or with an empty one,
\* tuple(map(int, args.crop.split(','))) otherwise
parse_crop(crop) ==
    IF crop = <<>>
    THEN Return(NoCrop)
    ELSE LET fields == SplitFrom(crop, <<>>)
         IN  IF \E i \in 1..Len(fields) : ParseInt(fields[i]).raised # "none"
             THEN Raise("ValueError")
             ELSE Return([i \in 1..Len(fields) |-> ParseInt(fields[i]).value])

\* the coordinate files of generate: no point, one point, two points, two
\* points far apart in y, and a record without y
CliDocuments ==
    {<<>>,
     <<Point({"x", "y"}, 0, 0)>>,
     <<Point({"x", "y"}, 0, 0), Point({"x", "y"}, Half, 0)>>,
     <<Point({"x", "y"}, 0, 0), Point({"x", "y"}, 0, 2 * Half)>>,
     <<Point({"x", "y"}, 0, 0), Point({"x"}, Half, 0)>>}
GenerateFiles ==
    WithAny(WithAny({NoFiles}, LoaderPath,
                    {TextFile} \cup {JsonFile(d) : d \in CliDocuments}),
            OutputPath, Outputs)
AnimateFiles == WithAny({NoFiles}, BackgroundPath, {ImageFile("RGB", 6, 5, <<0>>)})
CliFiles == GenerateFiles \cup AnimateFiles \cup OverlayFiles \cup GifFiles

\* --crop: none, 1,1,4,3 and 4,1,1,3 and 1,1,x,3 and 1,1,4 and -1,1,4,3
CliCrops ==
    {<<>>,
     <<49, 44, 49, 44, 52, 44, 51>>,
     <<52, 44, 49, 44, 49, 44, 51>>,
     <<49, 44, 49, 44, 120, 44, 51>>,
     <<49, 44, 49, 44, 52>>,
     <<45, 49, 44, 49, 44, 52, 44, 51>>}
\* --background of animate: not given
NoBackground == <<>>

GenerateArgs ==
    {[command |-> "generate", input |-> LoaderPath, output |-> OutputPath,
      grid_size |-> gs, bandwidth |-> bw] :
        gs \in {0, Half}, bw \in {-1, 0, Half}}
AnimateArgs ==
    {[command |-> "animate", frames |-> n, points |-> k, output |-> OutputPath,
      background |-> b, grid_size |-> Half, bandwidth |-> bw] :
        n \in 0..MaxFrames, k \in {0, 1}, b \in {NoBackground, BackgroundPath},
        bw \in {0, Half}}
OverlayArgs ==
    {[command |-> "overlay", background |-> BackgroundPath,
      heatmap |-> OverlayPath, output |-> OutputPath, crop |-> c] :
        c \in CliCrops}
GifArgs ==
    {[command |-> "gif", input |-> pattern, output |-> OutputPath] :
        pattern \in GifPatterns}

\* the files a command is run on
FilesOf(command) ==
    CASE command = "generate" -> GenerateFiles
      [] command = "animate" -> AnimateFiles
      [] command = "overlay" -> OverlayFiles
      [] command = "gif" -> GifFiles \ {NoFiles}
      [] OTHER -> CliFiles

\* a step of the command under way, at the frame it works on
Step(name) == [step |-> name, frame |-> frame]
Did(name, i) == \E k \in 1..Len(trace) : trace[k] = [step |-> name, frame |-> i]
StepTaken(name) ==
    /\ trace' = Append(trace, Step(name))
    /\ UNCHANGED <<args, status>>

\* a handler is running and no exception is on its way to except Exception
Running == status = NotReturned /\ pc # "idle" /\ raised = "none"

\* the statements of the create_heatmap call under way, the number of them
\* executed, and the one to execute next
Stages ==
    IF args.command = "generate"
    THEN create_heatmap_stages
    ELSE create_heatmap_from_points_stages
StagesDone ==
    Cardinality({k \in 1..Len(Stages) : Did(Stages[k], frame)})
InHeatmap ==
    /\ Running
    /\ \/ args.command = "generate"
       \/ /\ args.command = "animate"
          /\ pc # "main"
          /\ ~range_exhausted(frame, args.frames)
NextStage ==
    IF InHeatmap /\ StagesDone < Len(Stages)
    THEN Stages[StagesDone + 1]
    ELSE "none"
\* where the figure goes
HeatmapPath == IF args.command = "generate" THEN args.output ELSE FramePath(frame)

\* main: parse_args, then print_help and return 1 without a command, the
\* command's handler otherwise
Main ==
    /\ pc = "idle"
    /\ \E a \in {NoArgs} \cup GenerateArgs \cup AnimateArgs \cup OverlayArgs
                  \cup GifArgs :
         /\ fs \in FilesOf(a.command)
         /\ args' = a
         /\ status' = IF a.command = "none" THEN 1 ELSE NotReturned
         /\ pc' = IF a.command = "none" THEN "exit" ELSE "main"
    /\ UNCHANGED <<raised, distance, kernel_value, x, y, grid_size, bandwidth,
                   xc, yc, x_mesh, y_mesh, intensity, alpha, frame, log>>
    /\ UNCHANGED <<fs, axes, trace, errors>>

\* x, y = get_coordinates(json_file)
CliGetCoordinates ==
    /\ NextStage = "get_coordinates"
    /\ LoaderCall(args.input)
    /\ StepTaken("get_coordinates")

\* xc, yc, x_mesh, y_mesh = create_meshgrid(x, y, grid_size, bandwidth)
CliCreateMeshgrid ==
    /\ NextStage = "create_meshgrid"
    /\ MeshgridCall(x, y, args.grid_size, args.bandwidth)
    /\ StepTaken("create_meshgrid")
    /\ UNCHANGED <<fs, axes, errors>>

\* intensity = calculate_intensity(x, y, xc, yc, bandwidth)
CliCalculateIntensity ==
    /\ NextStage = "calculate_intensity"
    /\ IntensityCall(x, y, xc, yc, args.bandwidth)
    /\ StepTaken("calculate_intensity")
    /\ UNCHANGED <<fs, axes, errors>>

\* alpha = normalize_alpha(intensity)
CliNormalizeAlpha ==
    /\ NextStage = "normalize_alpha"
    /\ AlphaCall(intensity)
    /\ StepTaken("normalize_alpha")
    /\ UNCHANGED <<fs, axes, errors>>

\* save_heatmap(output_path, x_mesh, y_mesh, intensity, alpha, ...)
CliSaveHeatmap ==
    /\ NextStage = "save_heatmap"
    /\ LET r == save_heatmap(fs, HeatmapPath, x_mesh, y_mesh, intensity, alpha)
       IN  /\ raised' = r.raised
           /\ fs' = r.files
           /\ axes' = r.axes
    /\ pc' = "save_heatmap"
    /\ StepTaken("save_heatmap")
    /\ UNCHANGED <<distance, kernel_value, x, y, grid_size, bandwidth, xc, yc,
                   x_mesh, y_mesh, intensity, alpha, frame, log>>
    /\ UNCHANGED errors

\* cmd_animate up to its loop: the random point cloud
AnimateStart ==
    /\ Running
    /\ args.command = "animate"
    /\ pc = "main"
    /\ \E px \in [1..args.points -> Coords], py \in [1..args.points -> Coords] :
         x' = px /\ y' = py
    /\ frame' = 0
    /\ pc' = "cmd_animate"
    /\ UNCHANGED <<raised, distance, kernel_value, grid_size, bandwidth, xc, yc,
                   x_mesh, y_mesh, intensity, alpha, log>>
    /\ UNCHANGED io

\* the figure of the frame has been written
FrameRendered ==
    /\ Running
    /\ args.command = "animate"
    /\ pc # "main"
    /\ ~range_exhausted(frame, args.frames)
    /\ StagesDone = Len(Stages)

\* if args.background: overlay_images(background, frame_path, frame_path)
AnimateOverlay ==
    /\ FrameRendered
    /\ args.background # NoBackground
    /\ ~Did("overlay_images", frame)
    /\ \E keeps \in BOOLEAN :
         OverlayCall(args.background, FramePath(frame), FramePath(frame),
                     NoCrop, keeps)
    /\ StepTaken("overlay_images")

\* x, y = update_coordinates(x, y, x_delta, y_delta), the deltas being
\* random numbers below one with one random sign per axis; then the next i
AnimateUpdate ==
    /\ FrameRendered
    /\ args.background # NoBackground => Did("overlay_images", frame)
    /\ \E x_sign \in {1, -1}, y_sign \in {1, -1} :
         \E mx \in [1..args.points -> {0, 1}], my \in [1..args.points -> {0, 1}] :
           MotionCall(x, y,
                      ListArray([k \in 1..args.points |-> mx[k] * x_sign]),
                      ListArray([k \in 1..args.points |-> my[k] * y_sign]))
    /\ frame' = frame + 1
    /\ StepTaken("update_coordinates")

\* create_gif(str(temp_dir / "frame_*.png"), args.output, ...)
AnimateCreateGif ==
    /\ Running
    /\ args.command = "animate"
    /\ pc # "main"
    /\ range_exhausted(frame, args.frames)
    /\ ~Did("create_gif", frame)
    /\ \E keeps \in BOOLEAN :
         \E listing \in Listings(Glob(fs, Pattern(FramePrefix, FrameSuffix))) :
           GifCall(Pattern(FramePrefix, FrameSuffix), args.output, listing,
                   keeps)
    /\ StepTaken("create_gif")

\* shutil.rmtree(temp_dir)
AnimateCleanup ==
    /\ Running
    /\ args.command = "animate"
    /\ pc = "create_gif"
    /\ fs' = [path \in {q \in DOMAIN fs :
                            SubSeq(q, 1, Len(FramePrefix)) # FramePrefix}
                 |-> fs[path]]
    /\ pc' = "rmtree"
    /\ StepTaken("rmtree")
    /\ UNCHANGED <<raised, distance, kernel_value, x, y, grid_size, bandwidth,
                   xc, yc, x_mesh, y_mesh, intensity, alpha, frame, log>>
    /\ UNCHANGED <<axes, errors>>

\* cmd_overlay: the crop box parsed, then overlay_images
CmdOverlay ==
    /\ Running
    /\ args.command = "overlay"
    /\ pc = "main"
    /\ LET crop_box == parse_crop(args.crop)
       IN  IF crop_box.raised # "none"
           THEN /\ raised' = crop_box.raised
                /\ pc' = "cmd_overlay"
                /\ UNCHANGED <<distance, kernel_value, x, y, grid_size,
                               bandwidth, xc, yc, x_mesh, y_mesh, intensity,
                               alpha, frame, log>>
                /\ UNCHANGED <<fs, axes, errors>>
           ELSE \E keeps \in BOOLEAN :
                  OverlayCall(args.background, args.heatmap, args.output,
                              crop_box.value, keeps)
    /\ StepTaken("overlay_images")

\* cmd_gif: create_gif
CmdGif ==
    /\ Running
    /\ args.command = "gif"
    /\ pc = "main"
    /\ \E keeps \in BOOLEAN :
         \E listing \in Listings(Glob(fs, args.input)) :
           GifCall(args.input, args.output, listing, keeps)
    /\ StepTaken("create_gif")

\* the handler has nothing left to do
HandlerDone ==
    CASE args.command = "generate" -> StagesDone = Len(Stages)
      [] args.command = "animate" -> pc = "rmtree"
      [] args.command = "overlay" -> pc = "overlay_images"
      [] args.command = "gif" -> pc = "create_gif"
      [] OTHER -> FALSE

\* the handler logs its success and returns
ReturnSuccess ==
    /\ Running
    /\ HandlerDone
    /\ status' = handler_status(raised)
    /\ pc' = "exit"
    /\ UNCHANGED <<raised, distance, kernel_value, x, y, grid_size, bandwidth,
                   xc, yc, x_mesh, y_mesh, intensity, alpha, frame, log>>
    /\ UNCHANGED <<fs, args, axes, trace, errors>>

\* except Exception: the handler logs the failure and returns
ReturnFailure ==
    /\ status = NotReturned
    /\ pc \notin {"idle", "exit"}
    /\ raised # "none"
    /\ errors' = errors + 1
    /\ status' = handler_status(raised)
    /\ pc' = "exit"
    /\ UNCHANGED <<raised, distance, kernel_value, x, y, grid_size, bandwidth,
                   xc, yc, x_mesh, y_mesh, intensity, alpha, frame, log>>
    /\ UNCHANGED <<fs, args, axes, trace>>

InitCli == InitPipeline /\ InitIoOn(CliFiles)

NextCli ==
    \/ Main
    \/ CliGetCoordinates
    \/ CliCreateMeshgrid
    \/ CliCalculateIntensity
    \/ CliNormalizeAlpha
    \/ CliSaveHeatmap
    \/ AnimateStart
    \/ AnimateOverlay
    \/ AnimateUpdate
    \/ AnimateCreateGif
    \/ AnimateCleanup
    \/ CmdOverlay
    \/ CmdGif
    \/ ReturnSuccess
    \/ ReturnFailure

SpecCli == InitCli /\ [][NextCli]_vars

----------------------------------------------------------------------------
(* Properties of kde_quartic.                                              *)

\* C2: for every bandwidth h > 0, K(0, h) = 1, K(h, h) = 0,
\* K(h/2, h) = 0.5625 = 9/16, and K(d, h) >= 0 for every d in [0, h].
C2_KernelValues ==
    (pc = "kde_quartic" /\ bandwidth > 0) =>
        /\ raised = "none"
        /\ (distance = 0 => kernel_value.num = kernel_value.den)
        /\ (distance = bandwidth => kernel_value.num = 0)
        /\ (2 * distance = bandwidth =>
               16 * kernel_value.num = 9 * kernel_value.den)
        /\ (distance <= bandwidth => kernel_value.num >= 0)

\* the kernel has been evaluated half-way into its support
C2_Witness ==
    /\ pc = "kde_quartic"
    /\ bandwidth = 4
    /\ distance = 2
    /\ raised = "none"
    /\ kernel_value = Frac(9, 16)

----------------------------------------------------------------------------
(* Properties of create_meshgrid.                                          *)

\* create_meshgrid has been called within the grid builder's input
\* constraints: points non-empty, grid_size > 0, bandwidth >= 0
MeshgridInConstraints ==
    /\ pc = "create_meshgrid"
    /\ x # <<>>
    /\ grid_size > 0
    /\ bandwidth >= 0

\* the indices i >= 0 with start + i * step < stop, for step >= 1
StepsBelow(start, stop, step) ==
    {i \in 0..(stop - start) : start + i * step < stop}

\* C3: each axis is the half-open step range from min - bandwidth by
\* grid_size holding every value strictly below max + bandwidth and none at
\* or above it; the four arrays share the shape (number of y values, number
\* of x values); every centre is its origin plus grid_size / 2.
C3_HalfOpenStepRange ==
    MeshgridInConstraints =>
        /\ raised = "none"
        /\ LET x0 == SeqMin(x) - bandwidth
               x1 == SeqMax(x) + bandwidth
               y0 == SeqMin(y) - bandwidth
               y1 == SeqMax(y) + bandwidth
               nx == Cardinality(StepsBelow(x0, x1, grid_size))
               ny == Cardinality(StepsBelow(y0, y1, grid_size))
           IN  /\ x_mesh.shape = <<ny, nx>>
               /\ y_mesh.shape = <<ny, nx>>
               /\ xc.shape = <<ny, nx>>
               /\ yc.shape = <<ny, nx>>
               /\ \A j \in 1..ny, k \in 1..nx :
                    /\ x_mesh.data[j][k] = x0 + (k - 1) * grid_size
                    /\ y_mesh.data[j][k] = y0 + (j - 1) * grid_size
                    /\ x_mesh.data[j][k] < x1
                    /\ y_mesh.data[j][k] < y1
                    /\ Half * xc.data[j][k] = Half * x_mesh.data[j][k] + grid_size
                    /\ Half * yc.data[j][k] = Half * y_mesh.data[j][k] + grid_size

\* points x, y in {0, 1}, grid_size 1, bandwidth 1: the extent -1 .. 2 is a
\* whole number of steps and the grid stops short of the upper bound 2
C3_Witness ==
    /\ pc = "create_meshgrid"
    /\ raised = "none"
    /\ x = <<0, Half>>
    /\ y = <<0, Half>>
    /\ grid_size = Half
    /\ bandwidth = Half
    /\ x_mesh.shape = <<3, 3>>
    /\ x_mesh.data[1] = <<-Half, 0, Half>>

\* C8: create_meshgrid fails when the point set is empty or grid_size <= 0;
\* it never returns a grid in those cases.
C8_RejectsEmptyOrNonPositive ==
    (pc = "create_meshgrid" /\ (x = <<>> \/ grid_size <= 0)) =>
        raised # "none"

\* C9: on each axis the cells [origin, origin + grid_size) cover the whole
\* kernel support [p - bandwidth, p + bandwidth] of every point p; the grid
\* has a cell and every point lies inside some cell.
C9_GridCoversSupport ==
    MeshgridInConstraints =>
        /\ raised = "none"
        /\ Cells(x_mesh) # {}
        /\ \A i \in 1..Len(x) :
             /\ \A v \in (x[i] - bandwidth)..(x[i] + bandwidth) :
                  \E c \in Cells(x_mesh) :
                      At(x_mesh, c) <= v /\ v < At(x_mesh, c) + grid_size
             /\ \A w \in (y[i] - bandwidth)..(y[i] + bandwidth) :
                  \E c \in Cells(y_mesh) :
                      At(y_mesh, c) <= w /\ w < At(y_mesh, c) + grid_size
             /\ \E c \in Cells(x_mesh) :
                  /\ At(x_mesh, c) <= x[i] /\ x[i] < At(x_mesh, c) + grid_size
                  /\ At(y_mesh, c) <= y[i] /\ y[i] < At(y_mesh, c) + grid_size

----------------------------------------------------------------------------
(* Properties of calculate_intensity.                                      *)

\* the squared distance from the centre of cell c to point i
CentreDistance2(c, i) ==
    (At(xc, c) - x[i]) * (At(xc, c) - x[i]) +
    (At(yc, c) - y[i]) * (At(yc, c) - y[i])

\* the sum over the first n points of (h^2 - d^2)^2 for the points with
\* d <= h and of 0 for the others: the cell's intensity times h^4
RECURSIVE QuarticSum(_, _)
QuarticSum(c, n) ==
    IF n = 0 THEN 0
    ELSE LET d2 == CentreDistance2(c, n)
             h2 == bandwidth * bandwidth
         IN  QuarticSum(c, n - 1) +
             (IF d2 <= h2 THEN (h2 - d2) * (h2 - d2) ELSE 0)

\* cell c of the intensity is that kernel sum, and non-negative
CellIsKernelSum(c) ==
    LET h4 == bandwidth * bandwidth * bandwidth * bandwidth
    IN  /\ At(intensity, c).num * h4 = QuarticSum(c, Len(x)) * At(intensity, c).den
        /\ At(intensity, c).num >= 0

\* C1: for every point set, every grid of centres and every bandwidth
\* h > 0, calculate_intensity returns a matrix of the shape of the grid in
\* which each cell is the sum over the points of (1 - (d/h)^2)^2 for d <= h
\* and of 0 for d > h, hence non-negative.
C1_IntensityIsKernelSum ==
    (pc = "calculate_intensity" /\ bandwidth > 0) =>
        /\ raised = "none"
        /\ intensity.shape = xc.shape
        /\ \A c \in Cells(xc) : CellIsKernelSum(c)

\* what holds of C1 on the code: the same, on the grids that have a row
IntensityIsKernelSumOnRows ==
    (pc = "calculate_intensity" /\ bandwidth > 0 /\ NRows(xc) > 0) =>
        /\ raised = "none"
        /\ intensity.shape = xc.shape
        /\ \A c \in Cells(xc) : CellIsKernelSum(c)

\* C6: for a single point and h > 0 the intensity at a centre strictly
\* decreases with the centre's distance on [0, h]; a centre on the point is
\* strictly the highest of all centres; a centre exactly h away has 0.
C6_SinglePointDecreasing ==
    (pc = "calculate_intensity" /\ Len(x) = 1 /\ bandwidth > 0) =>
        /\ raised = "none"
        /\ \A a \in Cells(intensity) :
             /\ CentreDistance2(a, 1) = bandwidth * bandwidth =>
                    At(intensity, a).num = 0
             /\ \A b \in Cells(intensity) :
                  /\ ( /\ CentreDistance2(a, 1) < CentreDistance2(b, 1)
                       /\ CentreDistance2(b, 1) <= bandwidth * bandwidth )
                     => FracLt(At(intensity, b), At(intensity, a))
                  /\ (CentreDistance2(a, 1) = 0 /\ CentreDistance2(b, 1) # 0)
                     => FracLt(At(intensity, b), At(intensity, a))

\* one point, bandwidth 2, one centre on the point and one exactly 2 away
C6_Witness ==
    /\ pc = "calculate_intensity"
    /\ raised = "none"
    /\ Len(x) = 1
    /\ bandwidth = 2
    /\ intensity.shape = <<1, 2>>
    /\ CentreDistance2(<<1, 1>>, 1) = 0
    /\ CentreDistance2(<<1, 2>>, 1) = 4
    /\ At(intensity, <<1, 1>>) = One
    /\ At(intensity, <<1, 2>>) = Zero

\* C7: calculate_intensity fails whenever bandwidth <= 0; it never returns
\* an intensity matrix for such a bandwidth.
C7_RejectsNonPositiveBandwidth ==
    (pc = "calculate_intensity" /\ bandwidth <= 0) => raised # "none"

----------------------------------------------------------------------------
(* Properties of normalize_alpha.                                          *)

FieldIsConstant == \A a, b \in Cells(intensity) : At(intensity, a) = At(intensity, b)
IsMinCell(c) == \A d \in Cells(intensity) : FracLeq(At(intensity, c), At(intensity, d))
IsMaxCell(c) == \A d \in Cells(intensity) : FracLeq(At(intensity, d), At(intensity, c))

\* C4: of a field that is not constant, normalize_alpha returns a field of
\* the same shape with every value in [0, 1], the minimum at 0, the maximum
\* at 1, the order kept, each value being (intensity - min) / (max - min).
C4_NormalizedRange ==
    (pc = "normalize_alpha" /\ ~FieldIsConstant) =>
        /\ raised = "none"
        /\ alpha.shape = intensity.shape
        /\ \A c \in Cells(intensity) :
             /\ FracLeq(Zero, At(alpha, c))
             /\ FracLeq(At(alpha, c), One)
             /\ IsMinCell(c) => At(alpha, c).num = 0
             /\ IsMaxCell(c) => At(alpha, c).num = At(alpha, c).den
             /\ \A d \in Cells(intensity) :
                  /\ FracLeq(At(intensity, c), At(intensity, d))
                         => FracLeq(At(alpha, c), At(alpha, d))
                  /\ (IsMinCell(c) /\ IsMaxCell(d)) =>
                         \A e \in Cells(intensity) :
                             FracMul(At(alpha, e),
                                     FracSub(At(intensity, d), At(intensity, c)))
                               = FracSub(At(intensity, e), At(intensity, c))

\* a field with a minimum above 0, a maximum and a value between them
C4_Witness ==
    /\ pc = "normalize_alpha"
    /\ raised = "none"
    /\ intensity.shape = <<2, 2>>
    /\ \E a, b, c \in Cells(intensity) :
         /\ FracLt(Zero, At(intensity, a))
         /\ FracLt(At(intensity, a), At(intensity, b))
         /\ FracLt(At(intensity, b), At(intensity, c))
         /\ At(alpha, a) = Zero
         /\ At(alpha, b) = Frac(1, 2)
         /\ At(alpha, c) = One

\* C5: of a constant field, all zeros or uniformly non-zero, normalize_alpha
\* returns the all-zero field of the same shape, and does not fail.
C5_ConstantGivesZeros ==
    (pc = "normalize_alpha" /\ Size(intensity) > 0 /\ FieldIsConstant) =>
        /\ raised = "none"
        /\ alpha.shape = intensity.shape
        /\ \A c \in Cells(intensity) : At(alpha, c) = Zero

\* a uniform non-zero field has been normalised
C5_Witness ==
    /\ pc = "normalize_alpha"
    /\ raised = "none"
    /\ intensity.shape = <<2, 2>>
    /\ \A c \in Cells(intensity) : At(intensity, c) = Frac(2, 1)
    /\ \A c \in Cells(alpha) : At(alpha, c) = Zero

----------------------------------------------------------------------------
(* Properties of the frames.                                               *)

SameInputs(a, b) ==
    /\ a.x = b.x
    /\ a.y = b.y
    /\ a.grid_size = b.grid_size
    /\ a.bandwidth = b.bandwidth

\* C10: two runs of the pipeline on the same points, grid_size and bandwidth
\* give the same intensity and alpha, whatever frames ran before or between.
C10_SameInputsSameFrame ==
    \A a, b \in BagToSet(log) :
        SameInputs(a, b) => (a.intensity = b.intensity /\ a.alpha = b.alpha)

\* one input has been rendered twice and another one, of a greater
\* intensity, once
C10_Witness ==
    /\ frame = MaxFrames
    /\ \E a, b \in BagToSet(log) :
         /\ CopiesIn(a, log) >= 2
         /\ ~SameInputs(a, b)
         /\ FracLt(ArrayMax(a.intensity), ArrayMax(b.intensity))
         /\ \E c \in Cells(a.alpha) : At(a.alpha, c) = One

----------------------------------------------------------------------------
(* Properties of get_coordinates.                                          *)

\* get_coordinates has returned or raised on a file that holds JSON
LoadedJson ==
    /\ pc = "get_coordinates"
    /\ args.json_file \in DOMAIN fs
    /\ fs[args.json_file].kind = "json"
\* the records of that file
LoadedData == fs[args.json_file].data
HasBoth(point) == "x" \in DOMAIN point /\ "y" \in DOMAIN point

\* C11: on a file whose records all have x and y, get_coordinates returns
\* two lists as long as the file has records, and x[i], y[i] are the x and
\* the y of the i-th record: nothing dropped, duplicated or reordered.
C11_LoaderKeepsRecords ==
    (LoadedJson /\ \A i \in 1..Len(LoadedData) : HasBoth(LoadedData[i]))
        => /\ raised = "none"
           /\ Len(x) = Len(LoadedData)
           /\ Len(y) = Len(LoadedData)
           /\ \A i \in 1..Len(LoadedData) :
                x[i] = LoadedData[i]["x"] /\ y[i] = LoadedData[i]["y"]

\* two records with different coordinates, loaded in their order
C11_Witness ==
    /\ LoadedJson
    /\ LoadedData = <<Point({"x", "y"}, 0, Half), Point({"x", "y"}, Half, 0)>>
    /\ raised = "none"
    /\ x = <<0, Half>>
    /\ y = <<Half, 0>>

\* C12: when a record lacks x or lacks y, wherever it stands in the file,
\* get_coordinates raises KeyError and the caller gets no coordinates, not
\* even those of the records before the bad one.
C12_MissingMemberRaises ==
    (LoadedJson /\ \E i \in 1..Len(LoadedData) : ~HasBoth(LoadedData[i]))
        => /\ raised = "KeyError"
           /\ x = <<>>
           /\ y = <<>>

\* a good record followed by one without y
C12_Witness ==
    /\ LoadedJson
    /\ LoadedData = <<Point({"x", "y"}, 0, Half), Point({"x"}, Half, 0)>>
    /\ raised = "KeyError"
    /\ x = <<>>

----------------------------------------------------------------------------
(* Missing files.                                                          *)

----------------------------------------------------------------------------
(* Properties of update_coordinates.                                       *)

\* a delta that is a scalar or has one element per coordinate
DeltaFits(l, d) == d.shape = <<>> \/ d.shape = <<Len(l)>>
\* the delta of the i-th coordinate
DeltaAt(d, i) == IF d.shape = <<>> THEN d.data[1] ELSE d.data[i]
IsZeroDelta(d) == \A i \in 1..Len(d.data) : d.data[i] = 0

\* the coordinates l moved by d
MovedBy(moved, l, d) ==
    /\ Len(moved) = Len(l)
    /\ \A i \in 1..Len(l) : moved[i] = l[i] + DeltaAt(d, i)
    /\ IsZeroDelta(d) => moved = l

----------------------------------------------------------------------------
(* Properties of create_gif.                                               *)

\* the files the pattern matched
Matched == Glob(fs, args.input)
\* the place of a matched path among them in ascending order
Rank(path) == Cardinality({q \in Matched : LexLess(q, path)}) + 1

\* C15: the animation create_gif writes holds the files that match the
\* pattern in ascending lexicographic order of their paths, in whatever
\* order they were listed: one frame per file, the smallest path first,
\* none dropped, none twice.
C15_FramesInPathOrder ==
    (pc = "create_gif" /\ raised = "none")
        => /\ args.output \in DOMAIN fs
           /\ fs[args.output].kind = "gif"
           /\ Len(fs[args.output].frames) = Cardinality(Matched)
           /\ \A path \in Matched : fs[args.output].frames[Rank(path)] = fs[path]

\* f1, f10 and f2: f10 stands between f1 and f2
C15_Witness ==
    /\ pc = "create_gif"
    /\ raised = "none"
    /\ Matched = {<<102, 49>>, <<102, 49, 48>>, <<102, 50>>}
    /\ fs[<<102, 49>>].tag = <<0>>
    /\ fs[<<102, 49, 48>>].tag = <<1>>
    /\ fs[<<102, 50>>].tag = <<0>>
    /\ fs[args.output].frames[2].tag = <<1>>

----------------------------------------------------------------------------
(* Properties of the images written.                                       *)

\* the crop box of the overlay_images call that has just returned, and the
\* image it wrote
OverlayBox ==
    LET crop_box == IF args.command = "overlay"
                    THEN parse_crop(args.crop).value
                    ELSE NoCrop
    IN  IF crop_box = NoCrop THEN DefaultCropBox ELSE crop_box
Overlaid ==
    IF args.command = "overlay" THEN fs[args.output] ELSE fs[FramePath(frame)]

\* overlay_images writes an image of the size of the crop box
OverlayHasBoxSize ==
    (pc = "overlay_images" /\ raised = "none")
        => /\ Overlaid.width = OverlayBox[3] - OverlayBox[1]
           /\ Overlaid.height = OverlayBox[4] - OverlayBox[2]

\* C16: the image save_heatmap writes has one pixel per grid cell, as wide
\* as the grid has columns and as high as it has rows, with a view over all
\* columns in x and all rows in y; the image overlay_images writes has the
\* size of the crop box.
C16_ImageHasGridShape ==
    /\ (pc = "save_heatmap" /\ raised = "none")
         => /\ fs[HeatmapPath].width = NCols(intensity)
            /\ fs[HeatmapPath].height = NRows(intensity)
            /\ axes.xlim = <<0, NCols(x_mesh)>>
            /\ axes.ylim = <<0, NRows(y_mesh)>>
    /\ OverlayHasBoxSize

----------------------------------------------------------------------------
(* Properties of a frame.                                                  *)

\* the step a transition takes, "none" when it takes none
StepOf(before, after) ==
    IF Len(after) = Len(before) + 1 THEN after[Len(after)].step ELSE "none"
\* the calls of a frame that come before its figure is written
BeforeRendering ==
    {"get_coordinates", "create_meshgrid", "calculate_intensity",
     "normalize_alpha"}

\* C17: create_heatmap and create_heatmap_from_points write nothing before
\* the loader (in create_heatmap), the grid builder, the density estimator
\* and the alpha normaliser have all returned, and what they then write is
\* the output path alone; a failure of one of the four leaves every file as
\* it was.
C17_NoOutputFromFailedFrame ==
    [][/\ StepOf(trace, trace') \in BeforeRendering => fs' = fs
       /\ (StepOf(trace, trace') = "save_heatmap" /\ fs' # fs)
            => /\ raised = "none"
               /\ args.command = "generate" => Did("get_coordinates", frame)
               /\ Did("create_meshgrid", frame)
               /\ Did("calculate_intensity", frame)
               /\ Did("normalize_alpha", frame)
               /\ \A path \in DOMAIN fs :
                    path # HeatmapPath
                        => path \in DOMAIN fs' /\ fs'[path] = fs[path]]_vars

\* generate failed in the normaliser and the output of an earlier run is
\* still there
C17_Witness ==
    /\ args.command = "generate"
    /\ status = 1
    /\ trace[Len(trace)].step = "normalize_alpha"
    /\ raised = "ValueError"
    /\ args.output \in DOMAIN fs
    /\ fs[args.output] \in Outputs

----------------------------------------------------------------------------
(* Properties of the exit status.                                          *)

\* the last call of each command
LastStep ==
    CASE args.command = "generate" -> "save_heatmap"
      [] args.command = "animate" -> "rmtree"
      [] args.command = "overlay" -> "overlay_images"
      [] args.command = "gif" -> "create_gif"
      [] OTHER -> "none"
\* the command ran to its last call and nothing raised
Completed ==
    /\ args.command # "none"
    /\ raised = "none"
    /\ trace # <<>>
    /\ trace[Len(trace)].step = LastStep
\* no call was made twice for the same frame
NothingRepeated ==
    \A j, k \in 1..Len(trace) : j # k => trace[j] # trace[k]

\* C18: a command returns 0 exactly when it ran to its end without an
\* error; when something failed it logged the failure and returned a
\* non-zero status without calling anything again; main without a command
\* returns a non-zero status.
C18_StatusTellsCompletion ==
    status # NotReturned
        => /\ status = 0 <=> Completed
           /\ (status # 0 /\ args.command # "none")
                => /\ raised # "none"
                   /\ errors >= 1
                   /\ NothingRepeated
           /\ args.command = "none" => status # 0

\* animate rendered two frames on a background, assembled them and
\* returned 0
C18_Witness ==
    /\ status = 0
    /\ args.command = "animate"
    /\ args.frames = 2
    /\ args.background = BackgroundPath
    /\ args.output \in DOMAIN fs
    /\ fs[args.output].kind = "gif"

\* generate on a missing file returned 1, the failure logged by the loader
\* and by the handler
C18_FailureWitness ==
    /\ status = 1
    /\ args.command = "generate"
    /\ raised = "FileNotFoundError"
    /\ errors = 2

----------------------------------------------------------------------------
(* Properties of the order of the steps.                                   *)

\* the steps of one frame, in their order
FrameOrder(command) ==
    IF command = "generate"
    THEN <<"get_coordinates", "create_meshgrid", "calculate_intensity",
           "normalize_alpha", "save_heatmap">>
    ELSE <<"create_meshgrid", "calculate_intensity", "normalize_alpha",
           "save_heatmap">>
\* the places in the trace of the steps of frame i that are stages
StagePlaces(i) ==
    {k \in 1..Len(trace) :
        /\ trace[k].frame = i
        /\ trace[k].step \in BeforeRendering \cup {"save_heatmap"}}
\* step name of frame i stands in the trace before place k
DidBefore(name, i, k) ==
    \E j \in 1..(k - 1) : trace[j] = [step |-> name, frame |-> i]

\* C20: the stages of a frame run once each, in the order loader, grid
\* builder, density estimator, alpha normaliser, renderer; in animate the
\* overlay and the motion update that follow frame i come after frame i
\* was rendered, frame i + 1 is built after the update that follows frame
\* i and frame 0 before any update, and the GIF is assembled after every
\* requested frame was rendered and, with a background, overlaid.
C20_StagesInOrder ==
    args.command \in {"generate", "animate"}
        => /\ \A i \in 0..MaxFrames :
                \A k \in StagePlaces(i) :
                    LET n == Cardinality({j \in StagePlaces(i) : j <= k})
                    IN  /\ n <= Len(FrameOrder(args.command))
                        /\ trace[k].step = FrameOrder(args.command)[n]
           /\ status = 0 => \A i \in 0..MaxFrames :
                (i = 0 \/ (args.command = "animate" /\ i < args.frames))
                    => Cardinality(StagePlaces(i)) = Len(FrameOrder(args.command))
           /\ \A k \in 1..Len(trace) :
                /\ trace[k].step \in {"overlay_images", "update_coordinates"}
                     => DidBefore("save_heatmap", trace[k].frame, k)
                /\ (k \in StagePlaces(trace[k].frame) /\ trace[k].frame > 0)
                     => DidBefore("update_coordinates", trace[k].frame - 1, k)
                /\ (k \in StagePlaces(0)) => ~DidBefore("update_coordinates", 0, k)
                /\ trace[k].step = "create_gif"
                     => \A i \in 0..(args.frames - 1) :
                          /\ DidBefore("save_heatmap", i, k)
                          /\ args.background # NoBackground
                               => DidBefore("overlay_images", i, k)

\* three frames on a background, each rendered, overlaid and moved on from
\* before the GIF
C20_Witness ==
    /\ args.command = "animate"
    /\ args.frames = 3
    /\ args.background # NoBackground
    /\ status = 0
    /\ Len(trace) = 20

----------------------------------------------------------------------------
(* The kernel outside its support.                                         *)

\* C19: for every bandwidth h > 0 and every distance d > h,
\* kde_quartic(d, h) returns 0.
C19_ZeroOutsideSupport ==
    (pc = "kde_quartic" /\ bandwidth > 0 /\ distance > bandwidth)
        => /\ raised = "none"
           /\ kernel_value = Zero

----------------------------------------------------------------------------
(* cmd_animate run again and again in one working directory.               *)

\* cmd_animate started from the command line, for the first time or after
\* an earlier run has returned: a new process, which finds the files the
\* earlier runs left.  The output is a file of the working directory or of
\* a directory that does not exist; one point at the origin stands for the
\* random cloud.  temp_dir.mkdir(exist_ok=True) leaves what is in temp_frames.
AnimateRun ==
    /\ pc \in {"idle", "exit"}
    /\ \E n \in 0..MaxFrames, b \in {NoBackground, BackgroundPath},
          o \in {OutputPath, <<100, 47>> \o OutputPath} :
         args' = [command |-> "animate", frames |-> n, points |-> 1,
                  output |-> o, background |-> b, grid_size |-> Half,
                  bandwidth |-> Half]
    /\ x' = <<0>>
    /\ y' = <<0>>
    /\ frame' = 0
    /\ raised' = "none"
    /\ pc' = "cmd_animate"
    /\ distance' = 0
    /\ kernel_value' = Zero
    /\ grid_size' = 0
    /\ bandwidth' = 0
    /\ xc' = EmptyArray
    /\ yc' = EmptyArray
    /\ x_mesh' = EmptyArray
    /\ y_mesh' = EmptyArray
    /\ intensity' = EmptyArray
    /\ alpha' = EmptyArray
    /\ log' = EmptyBag
    /\ axes' = DefaultAxes
    /\ trace' = <<>>
    /\ errors' = 0
    /\ status' = NotReturned
    /\ UNCHANGED fs

\* x, y = update_coordinates(x, y, x_delta, y_delta) with one sample of the
\* random deltas; then the next i
RunUpdate ==
    /\ FrameRendered
    /\ args.background # NoBackground => Did("overlay_images", frame)
    /\ MotionCall(x, y, ListArray(<<1>>), ListArray(<<1>>))
    /\ frame' = frame + 1
    /\ StepTaken("update_coordinates")

NextRuns ==
    \/ AnimateRun
    \/ CliCreateMeshgrid
    \/ CliCalculateIntensity
    \/ CliNormalizeAlpha
    \/ CliSaveHeatmap
    \/ AnimateOverlay
    \/ RunUpdate
    \/ AnimateCreateGif
    \/ AnimateCleanup
    \/ ReturnSuccess
    \/ ReturnFailure

\* the first run finds the working directory with or without the background
InitRuns == InitPipeline /\ InitIoOn(AnimateFiles)

SpecRuns == InitRuns /\ [][NextRuns]_vars

----------------------------------------------------------------------------
(* The GIF of a run and the frame files of earlier runs.                   *)

\* the frame files in temp_frames
FrameFiles == Glob(fs, Pattern(FramePrefix, FrameSuffix))
\* cmd_animate has returned 0
AnimateReturnedZero == args.command = "animate" /\ pc = "exit" /\ status = 0

\* C21: after any sequence of cmd_animate runs, failed ones included, a run
\* with --frames N that returns 0 has written a GIF of exactly N frames,
\* the ones it rendered, and has left no temp_frames directory.
C21_GifHoldsTheFramesOfTheRun ==
    AnimateReturnedZero
        => /\ args.output \in DOMAIN fs
           /\ fs[args.output].kind = "gif"
           /\ Len(fs[args.output].frames) = args.frames
           /\ FrameFiles = {}

\* the half of C21 that holds: a run that returns 0 has written a GIF and
\* left no frame file
ReturnedZeroLeavesNoFrames ==
    AnimateReturnedZero
        => /\ args.output \in DOMAIN fs
           /\ fs[args.output].kind = "gif"
           /\ FrameFiles = {}

\* a run of one frame has returned 0 with a GIF of more than one frame
StaleFramesInGif ==
    /\ AnimateReturnedZero
    /\ args.frames = 1
    /\ Len(fs[args.output].frames) > 1

\* a failed run has left frame files behind
FailedRunLeavesFrames ==
    /\ args.command = "animate"
    /\ pc = "exit"
    /\ status = 1
    /\ Cardinality(FrameFiles) > 1

----------------------------------------------------------------------------
(* The order of the frames in the GIF of cmd_animate.                      *)

\* the iterations whose figures are in temp_frames: a figure carries its i
Written == {fs[path].tag[1] : path \in Glob(fs, Pattern(FramePrefix, FrameSuffix))}
\* create_gif has assembled the figures of the iterations followed
FramesAssembled ==
    /\ args.command = "frame_path"
    /\ pc = "create_gif"
    /\ raised = "none"

\* C22: for every frame count N >= 1 the frames of the GIF of cmd_animate
\* stand in generation order: the frame of iteration i precedes the frame
\* of iteration j whenever i < j, the names frame_{i:04d}.png being in
\* lexicographic order what the i are in numeric order, and distinct
\* iterations writing distinct paths.
C22_FramesInGenerationOrder ==
    /\ args.command = "frame_path"
          => \A i, j \in Written :
               /\ i < j => LexLess(FramePath(i), FramePath(j))
               /\ i # j => FramePath(i) # FramePath(j)
    /\ FramesAssembled
          => /\ Len(fs[args.output].frames) = Cardinality(Written)
             /\ \A a, b \in 1..Len(fs[args.output].frames) :
                   a < b => fs[args.output].frames[a].tag[1]
                              < fs[args.output].frames[b].tag[1]

\* what holds of C22: up to 10000 frames (i <= 9999) the frames stand in
\* generation order, and distinct iterations write distinct paths whatever
\* the count
FramesInOrderUpToFourDigits ==
    /\ args.command = "frame_path"
          => \A i, j \in Written :
               /\ (i < j /\ j <= 9999) => LexLess(FramePath(i), FramePath(j))
               /\ i # j => FramePath(i) # FramePath(j)
    /\ FramesAssembled
          => /\ Len(fs[args.output].frames) = Cardinality(Written)
             /\ \A a, b \in 1..Len(fs[args.output].frames) :
                   (a < b /\ \A i \in Written : i <= 9999)
                       => fs[args.output].frames[a].tag[1]
                            < fs[args.output].frames[b].tag[1]

\* frame 10000 stands before frame 9999 in the GIF
LaterFrameFirst ==
    /\ FramesAssembled
    /\ Len(fs[args.output].frames) = 2
    /\ fs[args.output].frames[1].tag = <<10000>>
    /\ fs[args.output].frames[2].tag = <<9999>>

====
